---- MODULE Spec2Model ----
(***************************************************************************)
(* A model of the image annotator of box-annotations                       *)
(* (src/src/image/ImageAnnotator.js): the resolution of a DOM event into   *)
(* an annotation location, the creation of an annotation thread, the       *)
(* reaction to scale/rotation notifications of the viewer, and the         *)
(* binding and unbinding of DOM listeners.                                 *)
(***************************************************************************)
EXTENDS Integers, Sequences, FiniteSets, TLC

VARIABLES
    hasTouch,       \* this.hasTouch: the platform has touch capability
    scale,          \* the data-scale of this.annotatedElement (setScale / util.getScale)
    fileVersionId,  \* this.fileVersionId, "" when the annotator was built without one
    canAnnotate,    \* this.permissions.canAnnotate
    hasController,  \* this.modeControllers[TYPES.point] is registered
    buttonVisible,  \* the point-annotation mode button is not hidden
    surfaceAngle,   \* the rotation the viewer currently shows the image at
    rendered,       \* the last render: [page |-> 0] is render(), [page |-> n] renderPage(n)
    mouseupBound,   \* 'mouseup' -> hideAnnotations is registered on annotatedElement
    baseBound,      \* the listeners of Annotator.bindDOMListeners are registered
    lastOp,         \* the last call made on the annotator, with its arguments
    result,         \* what that call returned (or the exception it threw)
    emitted,        \* the ANNOTATOR_EVENT.error signals that call emitted, in order
    constructed     \* the ImagePointThread constructor calls that call made

vars == <<hasTouch, scale, fileVersionId, canAnnotate, hasController, buttonVisible,
          surfaceAngle, rendered, mouseupBound, baseBound, lastOp, result, emitted,
          constructed>>

creationVars == <<lastOp, result, emitted, constructed>>
annotatorVars == <<hasTouch, fileVersionId>>
viewerVars == <<canAnnotate, hasController, buttonVisible, surfaceAngle, rendered>>
listenerVars == <<mouseupBound, baseBound>>

---------------------------------------------------------------------------
(* Bounds of the model.                                                    *)

\* Pages of a multi-image surface are 1..MaxPage.
MaxPage == 2

\* The scales the viewer shows the surface at.
Scales == {1, 2}

---------------------------------------------------------------------------
(* JavaScript values.  A number is finite, NaN or an infinity; undefined   *)
(* is the value of a missing property or argument.                         *)

Num(n) == [k |-> "fin", v |-> n]
NaN == [k |-> "nan", v |-> 0]
PosInf == [k |-> "inf", v |-> 1]
NegInf == [k |-> "inf", v |-> -1]
Undefined == [k |-> "undef", v |-> 0]

\* ToNumber of a number or undefined: undefined converts to NaN.
ToNumber(a) == IF a.k = "undef" THEN NaN ELSE a

\* a - b of JavaScript.
Minus(a, b) ==
    LET x == ToNumber(a)
        y == ToNumber(b)
    IN  IF x.k = "nan" \/ y.k = "nan" THEN NaN
        ELSE IF x.k = "fin" /\ y.k = "fin" THEN Num(x.v - y.v)
        ELSE IF x.k = "inf" /\ y.k = "fin" THEN x
        ELSE IF x.k = "fin" /\ y.k = "inf" THEN [k |-> "inf", v |-> 0 - y.v]
        ELSE IF x.v = y.v THEN NaN
        ELSE x

\* a / s of JavaScript for a finite positive s.  The finite coordinates of the
\* model are multiples of every scale in Scales, so the division is exact.
Divide(a, s) ==
    LET x == ToNumber(a)
    IN  IF x.k = "fin" THEN Num(x.v \div s) ELSE x

\* Number.isNaN(a): true of NaN only, not of undefined nor of an infinity.
NumberIsNaN(a) == a.k = "nan"

\* Number.isFinite(a).
NumberIsFinite(a) == a.k = "fin"

\* !a of JavaScript for a number or undefined.
Falsy(a) == a.k = "undef" \/ a.k = "nan" \/ (a.k = "fin" /\ a.v = 0)

\* a < 0 of JavaScript for a number or undefined.
LessThanZero(a) == (a.k = "fin" /\ a.v < 0) \/ (a.k = "inf" /\ a.v < 0)

\* a !== 0 of JavaScript.
NotStrictlyZero(a) == ~(a.k = "fin" /\ a.v = 0)

\* String.prototype.toLowerCase on the node names of the model.
ToLowerCase(s) ==
    CASE s = "IMG" -> "img"
      [] s = "DIV" -> "div"
      [] OTHER -> s

\* Number(attr) for the value of a data-rotation-angle attribute; a missing
\* attribute reads as null, which converts to 0.
NumberOfAttribute(attr) ==
    CASE attr = "null" -> Num(0)
      [] attr = "0" -> Num(0)
      [] attr = "90" -> Num(90)
      [] attr = "180" -> Num(180)
      [] attr = "270" -> Num(270)
      [] OTHER -> NaN

---------------------------------------------------------------------------
(* The DOM the annotator reads.                                            *)

IMAGE_NODE_NAME == "img"

\* The annotation types of ../constants (TYPES).
TYPES == [point |-> "point", highlight |-> "highlight", draw |-> "draw"]

\* The values a page number takes: missing, negative, 0, or a page of the surface.
PageValues == {Undefined, Num(-1), Num(0)} \cup {Num(p) : p \in 1..MaxPage}

\* The values of a data-rotation-angle attribute ("null": the attribute is missing).
RotationAttributes == {"null", "0", "90", "180", "270"}

\* The elements an event may target: image elements with each page metadata,
\* image elements with each rotation attribute, and an element that is no
\* image.  Page and rotation are read independently of each other.
Elements ==
    [nodeName : {"IMG"}, page : PageValues, rotation : {"null"}]
    \cup [nodeName : {"IMG", "img"}, page : {Num(1)}, rotation : RotationAttributes]
    \cup [nodeName : {"DIV"}, page : {Num(1)}, rotation : {"null"}]

\* imageEl.getBoundingClientRect(): the surface's box in viewport pixels.
GetBoundingClientRect(el) ==
    [left |-> Num(10), top |-> Num(20), width |-> Num(200), height |-> Num(100)]

\* The client coordinates an event or a touch carries; undefined when the
\* event has none.
ClientPoints ==
    { <<Num(110), Num(70)>>, <<NaN, Num(70)>>, <<Undefined, Undefined>>,
      <<PosInf, Num(70)>>, <<Num(110), NegInf>> }

Touches == { [clientX |-> p[1], clientY |-> p[2], target |-> el] :
                p \in ClientPoints, el \in Elements }

\* A mouse event has no targetTouches property; a touch event has no client
\* coordinates of its own, and its targetTouches are the touches on its target.
MouseEvents == { [type |-> "mouse", clientX |-> p[1], clientY |-> p[2], target |-> el,
                  targetTouches |-> <<>>] : p \in ClientPoints, el \in Elements }

TouchEvents == { [type |-> "touch", clientX |-> Undefined, clientY |-> Undefined,
                  target |-> el, targetTouches |-> <<>>] : el \in Elements }
    \cup { [type |-> "touch", clientX |-> Undefined, clientY |-> Undefined,
            target |-> t.target, targetTouches |-> <<t>>] : t \in Touches }

Events == MouseEvents \cup TouchEvents

\* event.targetTouches is undefined on a mouse event.
HasTargetTouches(event) == event.type = "touch"

---------------------------------------------------------------------------
(* Collaborators outside ImageAnnotator.js.                                *)

\* util.getPageInfo(imageEl): the page read from the element's page metadata.
GetPageInfo(imageEl) == [page |-> imageEl.page]

\* util.getScale(annotatedElement).
GetScale == scale

\* imageUtil.getLocationWithoutRotation(x, y, rotation, imageDimensions, scale):
\* un-rotates (x, y), already divided by scale, around the natural-space
\* centre; the identity at rotation 0.
GetLocationWithoutRotation(x, y, rotation, imageDimensions, s) ==
    LET width == Divide(imageDimensions.width, s)
        height == Divide(imageDimensions.height, s)
    IN  CASE rotation = Num(90) -> <<y, Minus(height, x)>>
          [] rotation = Num(180) -> <<Minus(width, x), Minus(height, y)>>
          [] rotation = Num(270) -> <<Minus(width, y), x>>
          [] OTHER -> <<x, y>>

---------------------------------------------------------------------------
(* getLocationFromEvent                                                    *)

NullLocation == [kind |-> "null"]

\* Lines 35-38: on a touch platform an event without an active touch point
\* resolves to no location.
NoActiveTouch(event) ==
    hasTouch /\ (~HasTargetTouches(event) \/ Len(event.targetTouches) = 0)

\* IsImageElement without the node-name check: any target passes.
IsImageElement_Unchecked(imageEl) == TRUE

\* Line 44: the target is an image node.
IsImageElement(imageEl) == ToLowerCase(imageEl.nodeName) = IMAGE_NODE_NAME

\* MakeLocation with the page normalized in the resolver already.
MakeLocation_Normalized(x, y, imageEl, dimensions, page) ==
    [kind |-> "location", x |-> x, y |-> y, imageEl |-> imageEl,
     dimensions |-> dimensions,
     page |-> IF page.k = "fin" /\ page.v > 0 THEN page ELSE Num(1)]

\* Lines 73-79: the location object, with the page as getPageInfo read it.
MakeLocation(x, y, imageEl, dimensions, page) ==
    [kind |-> "location", x |-> x, y |-> y, imageEl |-> imageEl,
     dimensions |-> dimensions, page |-> page]

\* The value returned and the error signals emitted by getLocationFromEvent(event).
GetLocationFromEvent(event) ==
    IF NoActiveTouch(event)
    THEN [ret |-> NullLocation, errors |-> <<>>]
    ELSE
    LET clientEvent == IF hasTouch THEN event.targetTouches[1] ELSE event
        imageEl == clientEvent.target
    IN  IF ~IsImageElement(imageEl)
        THEN [ret |-> NullLocation, errors |-> <<>>]
        ELSE
        LET page == GetPageInfo(imageEl).page
            imageDimensions == GetBoundingClientRect(imageEl)
            x == Minus(clientEvent.clientX, imageDimensions.left)
            y == Minus(clientEvent.clientY, imageDimensions.top)
        IN  IF NumberIsNaN(x) \/ NumberIsNaN(y)
            THEN [ret |-> NullLocation, errors |-> <<"createError">>]
            ELSE
            LET s == GetScale
                rotation == NumberOfAttribute(imageEl.rotation)
                xy == GetLocationWithoutRotation(Divide(x, s), Divide(y, s), rotation,
                                                 imageDimensions, s)
                dimensions == [x |-> Divide(imageDimensions.width, s),
                               y |-> Divide(imageDimensions.height, s)]
            IN  [ret |-> MakeLocation(xy[1], xy[2], imageEl, dimensions, page),
                 errors |-> <<>>]

\* A call of getLocationFromEvent by the event handlers of the annotator.
CallGetLocationFromEvent ==
    \E event \in Events :
        LET out == GetLocationFromEvent(event)
        IN  /\ lastOp' = [kind |-> "getLocationFromEvent", event |-> event]
            /\ result' = out.ret
            /\ emitted' = out.errors
            /\ constructed' = <<>>
            /\ UNCHANGED <<annotatorVars, scale, viewerVars, listenerVars>>

---------------------------------------------------------------------------
(* createAnnotationThread                                                  *)

NoThread == [kind |-> "undefined"]

\* What a call leaves when a TypeError propagates out of it.
ThrownTypeError == [kind |-> "TypeError"]

\* The annotations handed to the factory: undefined, an empty list (a new
\* thread) or the annotations of an existing thread.
AnnotationInputs ==
    { [defined |-> FALSE, list |-> <<>>], [defined |-> TRUE, list |-> <<>>],
      [defined |-> TRUE, list |-> <<"annotation">>] }

\* The type tags handed to the factory; "" is a missing type.
TypeInputs == {TYPES.point, TYPES.highlight, "unknown", ""}

\* Candidate locations: locations as the resolver builds them, with any page
\* value and finite or non-finite coordinates, and the resolver's null.
LocationInputs ==
    { [kind |-> "location", x |-> x, y |-> Num(50),
       imageEl |-> [nodeName |-> "IMG", page |-> pg, rotation |-> "null"],
       dimensions |-> [x |-> Num(200), y |-> Num(100)], page |-> pg] :
         x \in {Num(100), PosInf}, pg \in PageValues }
    \cup {NullLocation}

\* Annotator.getThreadParams(annotations, location, type): the parameters a
\* thread is constructed from.
GetThreadParams(annotations, location, type) ==
    [annotatedElement |-> "annotatedElement", annotations |-> annotations,
     annotationService |-> "annotationService", fileVersionId |-> fileVersionId,
     location |-> location, type |-> type]

\* util.areThreadParamsValid(threadParams): the required fields are present
\* (a type tag among them: support for the type is decided by the
\* constructors, not here) and the coordinates are finite.
AreThreadParamsValid(threadParams) ==
    /\ threadParams.annotatedElement # ""
    /\ threadParams.annotations.defined
    /\ threadParams.annotationService # ""
    /\ threadParams.fileVersionId # ""
    /\ threadParams.location.kind = "location"
    /\ NumberIsFinite(threadParams.location.x)
    /\ NumberIsFinite(threadParams.location.y)
    /\ threadParams.type # ""

\* Annotator.handleValidationError(): reports a validation error on the
\* error channel.
HandleValidationError == <<"validationError">>

\* new ImagePointThread(threadParams).
ImagePointThread(threadParams) ==
    [kind |-> "thread", class |-> "ImagePointThread", type |-> threadParams.type,
     location |-> threadParams.location, annotations |-> threadParams.annotations]

\* FixLocationPage without the !page test: only a negative page becomes 1.
FixLocationPage_NegativeOnly(location) ==
    IF LessThanZero(location.page)
    THEN [location EXCEPT !.page = Num(1)]
    ELSE location

\* Lines 89-92: a missing, zero or negative page of the location becomes 1.
FixLocationPage(location) ==
    IF Falsy(location.page) \/ LessThanZero(location.page)
    THEN [location EXCEPT !.page = Num(1)]
    ELSE location

\* DispatchByType without the load error of lines 104-106.
DispatchByType_Silent(threadParams, type) ==
    LET made == type = TYPES.point
    IN  [ret |-> IF made THEN ImagePointThread(threadParams) ELSE NoThread,
         errors |-> <<>>,
         ctor |-> IF made THEN <<threadParams>> ELSE <<>>]

\* Lines 100-108: the construction by type, and the load error when no
\* constructor produced a thread.
DispatchByType(threadParams, type) ==
    LET made == type = TYPES.point
        thread == IF made THEN ImagePointThread(threadParams) ELSE NoThread
    IN  [ret |-> thread,
         errors |-> IF thread.kind = "undefined" THEN <<"loadError">> ELSE <<>>,
         ctor |-> IF made THEN <<threadParams>> ELSE <<>>]

\* The value returned, the error signals emitted and the constructor calls
\* made by createAnnotationThread(annotations, location, type).  Reading
\* fixedLocation.page of a null location throws a TypeError (line 90).
CreateAnnotationThread(annotations, location, type) ==
    IF location.kind = "null"
    THEN [ret |-> ThrownTypeError, errors |-> <<>>, ctor |-> <<>>]
    ELSE
    LET fixedLocation == FixLocationPage(location)
        threadParams == GetThreadParams(annotations, fixedLocation, type)
    IN  IF ~AreThreadParamsValid(threadParams)
        THEN [ret |-> NoThread, errors |-> HandleValidationError, ctor |-> <<>>]
        ELSE DispatchByType(threadParams, type)

\* The location the last getLocationFromEvent call returned, if that is the
\* last call made.
ResolvedLocations ==
    IF lastOp.kind = "getLocationFromEvent" THEN {result} ELSE {}

\* A call of createAnnotationThread, on a candidate location or on what the
\* resolver just returned.
CallCreateAnnotationThread ==
    \E annotations \in AnnotationInputs, type \in TypeInputs,
       location \in LocationInputs \cup ResolvedLocations :
        LET out == CreateAnnotationThread(annotations, location, type)
        IN  /\ lastOp' = [kind |-> "createAnnotationThread", annotations |-> annotations,
                          location |-> location, type |-> type]
            /\ result' = out.ret
            /\ emitted' = out.errors
            /\ constructed' = out.ctor
            /\ UNCHANGED <<annotatorVars, scale, viewerVars, listenerVars>>

---------------------------------------------------------------------------
(* The annotator after construction, and the creation path.                *)

NoOp == [kind |-> "none"]

\* The creation path reads hasTouch, the scale and the file version id; the
\* viewer's permissions and rotation are not read on it.
Init ==
    /\ hasTouch \in BOOLEAN
    /\ scale \in Scales
    /\ fileVersionId \in {"", "fileVersion"}
    /\ canAnnotate = TRUE
    /\ hasController = TRUE
    /\ buttonVisible = TRUE
    /\ surfaceAngle = Num(0)
    /\ rendered = [page |-> 0]
    /\ mouseupBound = FALSE
    /\ baseBound = FALSE
    /\ lastOp = NoOp
    /\ result = NoThread
    /\ emitted = <<>>
    /\ constructed = <<>>

Next ==
    \/ CallGetLocationFromEvent
    \/ CallCreateAnnotationThread

Spec == Init /\ [][Next]_vars

---------------------------------------------------------------------------
(* scaleAnnotations and rotateAnnotations                                  *)

\* The rotations the viewer shows the image at.
Angles == {Num(0), Num(90), Num(180), Num(270)}

\* The pageNum of a notification: missing for the whole surface, or a page.
PageNums == {Undefined, Num(0)} \cup {Num(p) : p \in 1..MaxPage}

\* Annotator.setScale(scale): the new scale of the annotated element.
SetScale(s) == scale' = s

\* Lines 128-132: renderPage(pageNum) for a page, render() otherwise.
RenderAfterRotation(pageNum) ==
    rendered' = IF ~Falsy(pageNum) THEN [page |-> pageNum.v] ELSE [page |-> 0]

\* PointButtonVisibility without the early return of lines 137-139.
PointButtonVisibility_NoPermissionCheck(rotationAngle) ==
    ~NotStrictlyZero(rotationAngle)

\* PointButtonVisibility without the else branch of lines 146-148.
PointButtonVisibility_NeverShown(rotationAngle) ==
    IF ~canAnnotate \/ ~hasController
    THEN buttonVisible
    ELSE IF NotStrictlyZero(rotationAngle) THEN FALSE ELSE buttonVisible

\* Lines 134-148: whether the point-annotation button is visible after
\* rotateAnnotations.  Without the permission or without a point controller
\* the button is left as it is; otherwise it is hidden when the angle is not
\* 0 and shown when it is.
PointButtonVisibility(rotationAngle) ==
    IF ~canAnnotate \/ ~hasController
    THEN buttonVisible
    ELSE ~NotStrictlyZero(rotationAngle)

\* A default parameter takes its default when the argument is undefined.
DefaultTo(arg, default) == IF arg = Undefined THEN default ELSE arg

\* rotateAnnotations(rotationAngle = 0, pageNum = 0).
RotateAnnotations(rotationAngle, pageNum) ==
    /\ RenderAfterRotation(DefaultTo(pageNum, Num(0)))
    /\ buttonVisible' = PointButtonVisibility(DefaultTo(rotationAngle, Num(0)))

\* scaleAnnotations(data).
ScaleAnnotations(data) ==
    /\ SetScale(data.scale)
    /\ RotateAnnotations(data.rotationAngle, data.pageNum)

\* The viewer rotates or zooms the surface, or one page of it, and notifies
\* the annotator.  A rotation is notified with its angle; a notification of
\* a zoom alone may carry no angle.
ViewerScalesOrRotates ==
    \E s \in Scales, angle \in Angles, withAngle \in BOOLEAN, pageNum \in PageNums :
        LET data == [scale |-> s,
                     rotationAngle |-> IF withAngle THEN angle ELSE Undefined,
                     pageNum |-> pageNum]
        IN  /\ withAngle \/ angle = surfaceAngle
            /\ surfaceAngle' = angle
            /\ ScaleAnnotations(data)
            /\ lastOp' = [kind |-> "scaleAnnotations", data |-> data,
                          shownBefore |-> buttonVisible]
            /\ UNCHANGED <<annotatorVars, canAnnotate, hasController, listenerVars,
                           result, emitted, constructed>>

\* The viewer grants or revokes the canAnnotate permission.
ViewerSetsPermission ==
    /\ canAnnotate' = ~canAnnotate
    /\ lastOp' = [kind |-> "permissions"]
    /\ UNCHANGED <<annotatorVars, scale, hasController, buttonVisible, surfaceAngle,
                   rendered, listenerVars, result, emitted, constructed>>

\* The viewer registers or removes the point-mode controller.
ViewerSetsController ==
    /\ hasController' = ~hasController
    /\ lastOp' = [kind |-> "controllers"]
    /\ UNCHANGED <<annotatorVars, scale, canAnnotate, buttonVisible, surfaceAngle,
                   rendered, listenerVars, result, emitted, constructed>>

---------------------------------------------------------------------------
(* bindDOMListeners and unbindDOMListeners                                 *)

\* Annotator.bindDOMListeners(): registers the listeners of the base
\* annotator; registering a listener already registered changes nothing.
SuperBindDOMListeners == baseBound' = TRUE

\* Lines 152-155.
BindDOMListeners ==
    /\ mouseupBound' = TRUE
    /\ SuperBindDOMListeners

\* Lines 158-161: the mouseup listener is removed, and the base annotator's
\* bindDOMListeners, not its unbindDOMListeners, is called.
UnbindDOMListeners ==
    /\ mouseupBound' = FALSE
    /\ SuperBindDOMListeners

CallBindDOMListeners ==
    /\ BindDOMListeners
    /\ lastOp' = [kind |-> "bindDOMListeners"]
    /\ UNCHANGED <<annotatorVars, scale, viewerVars, result, emitted, constructed>>

CallUnbindDOMListeners ==
    /\ UnbindDOMListeners
    /\ lastOp' = [kind |-> "unbindDOMListeners"]
    /\ UNCHANGED <<annotatorVars, scale, viewerVars, result, emitted, constructed>>

---------------------------------------------------------------------------
(* The annotator on a surface the viewer zooms and rotates.                *)

\* The button starts shown exactly when the user may annotate and a point
\* controller is registered: the surface starts unrotated.
InitViewer ==
    /\ hasTouch = FALSE
    /\ scale = 1
    /\ fileVersionId = "fileVersion"
    /\ canAnnotate \in BOOLEAN
    /\ hasController \in BOOLEAN
    /\ buttonVisible = (canAnnotate /\ hasController)
    /\ surfaceAngle = Num(0)
    /\ rendered = [page |-> 0]
    /\ mouseupBound = FALSE
    /\ baseBound = FALSE
    /\ lastOp = NoOp
    /\ result = NoThread
    /\ emitted = <<>>
    /\ constructed = <<>>

NextViewer ==
    \/ ViewerScalesOrRotates
    \/ ViewerSetsPermission
    \/ ViewerSetsController
    \/ CallBindDOMListeners
    \/ CallUnbindDOMListeners

SpecViewer == InitViewer /\ [][NextViewer]_vars

---------------------------------------------------------------------------
(* Properties of getLocationFromEvent.                                     *)

Resolved == lastOp.kind = "getLocationFromEvent"

\* The event has no touch point to read on a touch platform.
LacksTouchPoint(event) ==
    hasTouch /\ (event.type = "mouse" \/ event.targetTouches = <<>>)

\* The event or touch whose coordinates and target the resolver reads.
PointerOf(event) == IF hasTouch THEN Head(event.targetTouches) ELSE event

TargetsImage(event) == event.target.nodeName \in {"IMG", "img"}

\* The offsets (clientX - surfaceLeft, clientY - surfaceTop) of the event.
OffsetsOf(event) ==
    LET box == GetBoundingClientRect(PointerOf(event).target)
    IN  <<Minus(PointerOf(event).clientX, box.left),
          Minus(PointerOf(event).clientY, box.top)>>

NonFiniteOffset(event) ==
    \E i \in {1, 2} : OffsetsOf(event)[i].k \in {"nan", "inf"}

IsPositive(page) == page.k = "fin" /\ page.v >= 1

\* C1 (as claimed): an interaction on an image target whose offset has a
\* component that is NaN, +Infinity or -Infinity returns no location and
\* emits exactly one createError signal.
C1_NonFiniteOffsetIsInputError ==
    (Resolved /\ ~LacksTouchPoint(lastOp.event) /\ TargetsImage(lastOp.event)
        /\ NonFiniteOffset(lastOp.event))
    => (result = NullLocation /\ emitted = <<"createError">>)

\* C6 (as claimed): every location getLocationFromEvent returns has a
\* positive page: the page metadata when positive, 1 otherwise.
C6_ReturnedPageIsPositive ==
    (Resolved /\ result.kind = "location")
    => /\ IsPositive(result.page)
       /\ result.page = IF IsPositive(PointerOf(lastOp.event).target.page)
                        THEN PointerOf(lastOp.event).target.page
                        ELSE Num(1)

\* C6 (amended): every location getLocationFromEvent returns carries the page
\* of the target's page metadata as it was read, positive or not; a missing,
\* zero or negative page is left as it is by the resolver.
C6_ReturnedPageIsPageMetadata ==
    (Resolved /\ result.kind = "location")
    => result.page = PointerOf(lastOp.event).target.page

\* A location was returned for a target whose page metadata is negative.
C6_Witness ==
    /\ Resolved
    /\ result.kind = "location"
    /\ PointerOf(lastOp.event).target.page = Num(-1)
    /\ result.page = Num(-1)

\* C9: an event without an active touch point on a touch platform, or an
\* event whose target is not an image element, returns no location and emits
\* no error signal.
C9_BenignAbsenceIsSilent ==
    (Resolved /\ (LacksTouchPoint(lastOp.event) \/ ~TargetsImage(lastOp.event)))
    => (result = NullLocation /\ emitted = <<>>)

\* A touch event with a touch point on a non-image target, on a touch
\* platform, was resolved to no location without an error signal.
C9_Witness ==
    /\ Resolved
    /\ hasTouch
    /\ Len(lastOp.event.targetTouches) = 1
    /\ lastOp.event.target.nodeName = "DIV"
    /\ result = NullLocation
    /\ emitted = <<>>

---------------------------------------------------------------------------
(* Properties of createAnnotationThread.                                   *)

Created == lastOp.kind = "createAnnotationThread"

\* The page createAnnotationThread is to give the location.
NormalizedPage(page) == IF IsPositive(page) THEN page ELSE Num(1)

\* The parameters of the last createAnnotationThread call pass the validity
\* predicate; a null location is a missing required field.
ParamsValid ==
    /\ lastOp.location.kind = "location"
    /\ AreThreadParamsValid(
           GetThreadParams(lastOp.annotations,
                           [lastOp.location EXCEPT !.page = NormalizedPage(@)],
                           lastOp.type))

\* C3: valid parameters of type point give a point thread and no error
\* signal; the thread has the requested type and the normalized page.
C3_ValidPointGivesThread ==
    (Created /\ ParamsValid /\ lastOp.type = "point")
    => /\ result.kind = "thread"
       /\ result.class = "ImagePointThread"
       /\ emitted = <<>>
       /\ result.type = lastOp.type
       /\ result.location.page = NormalizedPage(lastOp.location.page)

\* A point thread was created on a location without a page, on page 1.
C3_Witness ==
    /\ Created
    /\ ParamsValid
    /\ lastOp.type = "point"
    /\ lastOp.location.page = Undefined
    /\ result.kind = "thread"
    /\ result.location.page = Num(1)

\* C4: valid parameters of a type other than point give no thread and
\* exactly one error signal, the load error.
C4_OtherTypeIsLoadError ==
    (Created /\ ParamsValid /\ lastOp.type # "point")
    => (result = NoThread /\ emitted = <<"loadError">> /\ constructed = <<>>)

\* Valid parameters of type highlight ended in the load error.
C4_Witness ==
    /\ Created
    /\ ParamsValid
    /\ lastOp.type = "highlight"
    /\ result = NoThread
    /\ emitted = <<"loadError">>

\* C5 (as claimed): parameters that fail the validity predicate give exactly
\* one validation error, no thread, no constructor call and no load error,
\* whatever the type.
C5_InvalidParamsIsOneValidationError ==
    (Created /\ ~ParamsValid)
    => (result = NoThread /\ emitted = <<"validationError">> /\ constructed = <<>>)

\* C8 (as claimed): no exception propagates out of getLocationFromEvent or
\* createAnnotationThread; each call returns a location, a thread or nothing.
C8_NoExceptionPropagates ==
    (Resolved \/ Created)
    => result.kind \in {"location", "null", "thread", "undefined"}
         /\ (Resolved => result.kind \in {"location", "null"})
         /\ (Created => result.kind \in {"thread", "undefined"})

---------------------------------------------------------------------------
(* Properties of the reaction to scale and rotation notifications.         *)

Notified == lastOp.kind = "scaleAnnotations"

\* The angle of a notification; one that carries no angle counts as 0.
NotifiedAngle(op) ==
    IF op.data.rotationAngle = Undefined THEN Num(0) ELSE op.data.rotationAngle

C7_VisibleIffNotifiedAngleIsZero ==
    (Notified /\ canAnnotate /\ hasController)
    => (buttonVisible <=> NotifiedAngle(lastOp) = Num(0))

\* The button, hidden by a rotation, is shown again by a notification of angle 0.
C7_Witness ==
    /\ Notified
    /\ canAnnotate /\ hasController
    /\ lastOp.data.rotationAngle = Num(0)
    /\ ~lastOp.shownBefore
    /\ buttonVisible

---------------------------------------------------------------------------
(* Properties of the DOM listeners.                                        *)

\* C10 (as claimed): after unbindDOMListeners neither the mouseup listener
\* nor a listener of the base annotator's bindDOMListeners is registered.
C10_UnbindRemovesAllListeners ==
    lastOp.kind = "unbindDOMListeners" => (~mouseupBound /\ ~baseBound)

====
